---- MODULE Spec2Model ----
(***************************************************************************)
(* Model of src/pandas_questions.py: the three table transformations       *)
(* merge_regions_and_departments, merge_referendum_and_areas and           *)
(* compute_referendum_result_by_regions, together with the pandas          *)
(* operations they call (rename, merge, boolean indexing, astype(str),     *)
(* str.contains, str.zfill, dropna, groupby/agg).                          *)
(*                                                                         *)
(* A cell is a record [t, s, n]: a missing value (NaN/None), a text (a     *)
(* sequence of one-character strings) or an integer.  A table is a record  *)
(* [index, columns, rows]; a row maps each column name to a cell.          *)
(***************************************************************************)
EXTENDS Integers, Sequences, FiniteSets, TLC

VARIABLES fn, pc, store, given, astypeKeepsNA

vars == <<fn, pc, store, given, astypeKeepsNA>>

(***************************************************************************)
(* Bounds of the model: the longest input table of each kind.              *)
(***************************************************************************)
MaxRegions == 2

MaxDepartments == 2

MaxReferendum == 2

MaxAreas == 2

MaxJoined == 3

(***************************************************************************)
(* Cells.                                                                  *)
(***************************************************************************)
Null == [t |-> "null", s |-> <<>>, n |-> 0]

Str(s) == [t |-> "str", s |-> s, n |-> 0]

Num(n) == [t |-> "int", s |-> <<>>, n |-> n]

IsNA(c) == c.t = "null"

(***************************************************************************)
(* Text conversion and the string methods of lines 60-70.                  *)
(***************************************************************************)
DigitChars == <<"0", "1", "2", "3", "4", "5", "6", "7", "8", "9">>

RECURSIVE NatText(_)
NatText(n) ==
    IF n < 10 THEN <<DigitChars[n + 1]>>
    ELSE NatText(n \div 10) \o <<DigitChars[(n % 10) + 1]>>

IntText(n) == IF n < 0 THEN <<"-">> \o NatText(0 - n) ELSE NatText(n)

\* Series.astype(str): a text is kept, an integer is written in decimal.  A
\* missing value becomes the text "nan", or stays missing under a pandas
\* whose string dtype keeps missing values (keepNA).
AsTypeStr(c, keepNA) ==
    CASE c.t = "str" -> c
      [] c.t = "int" -> Str(IntText(c.n))
      [] OTHER -> IF keepNA THEN Null ELSE Str(<<"n", "a", "n">>)

ContainsText(s, pat) ==
    \E i \in 1..(Len(s) - Len(pat) + 1) : SubSeq(s, i, i + Len(pat) - 1) = pat

LowerCase(ch) ==
    CASE ch = "Z" -> "z" [] ch = "A" -> "a" [] ch = "B" -> "b"
      [] ch = "N" -> "n" [] OTHER -> ch

Lowered(s) == [i \in DOMAIN s |-> LowerCase(s[i])]

StrContainsIgnoreCase(c, pat, na) ==
    IF IsNA(c) THEN na ELSE ContainsText(Lowered(c.s), Lowered(pat))

StrContainsMissingAsMatch(c, pat, na) ==
    IF IsNA(c) THEN TRUE ELSE ContainsText(c.s, pat)

\* Series.str.contains(pat, na=na): case-sensitive search; a missing value
\* yields na.
StrContains(c, pat, na) == IF IsNA(c) THEN na ELSE ContainsText(c.s, pat)

Zeros(k) == [i \in 1..k |-> "0"]

ZFillTextSignBlind(s, width) ==
    IF Len(s) >= width THEN s ELSE Zeros(width - Len(s)) \o s

\* str.zfill(width): pad on the left with "0"; a leading sign stays first.
ZFillText(s, width) ==
    IF Len(s) >= width THEN s
    ELSE IF Len(s) > 0 /\ s[1] \in {"+", "-"}
         THEN <<s[1]>> \o Zeros(width - Len(s)) \o Tail(s)
         ELSE Zeros(width - Len(s)) \o s

\* Series.str.zfill(width): a missing value stays missing.
StrZFill(c, width) == IF IsNA(c) THEN Null ELSE Str(ZFillText(c.s, width))

(***************************************************************************)
(* Tables and the DataFrame operations the functions call.                 *)
(***************************************************************************)
Range(f) == {f[i] : i \in DOMAIN f}

Table(cols, rows) == [index |-> "", columns |-> cols, rows |-> rows]

None == [index |-> "none", columns |-> <<>>, rows |-> <<>>]

RECURSIVE Flatten(_)
Flatten(ss) == IF ss = <<>> THEN <<>> ELSE Head(ss) \o Flatten(Tail(ss))

RenamedCol(m, c) == IF c \in DOMAIN m THEN m[c] ELSE c

\* DataFrame.rename(columns=m): a new table, the columns renamed in place.
Rename(t, m) ==
    LET old == Range(t.columns)
        new == {RenamedCol(m, c) : c \in old}
        src(c2) == CHOOSE c \in old : RenamedCol(m, c) = c2
    IN  [index |-> t.index,
         columns |-> [i \in DOMAIN t.columns |-> RenamedCol(m, t.columns[i])],
         rows |-> [i \in DOMAIN t.rows |-> [c2 \in new |-> t.rows[i][src(c2)]]]]

\* The right rows a left row joins: equal keys, a missing key matching a
\* missing key, in the right table's order.
MatchesAny(l, right, key) == right.rows

Matches(l, right, key) == SelectSeq(right.rows, LAMBDA r : r[key] = l[key])

\* left.merge(right, on=key, how=how): every left row in order, once per
\* matching right row; a left row that nothing matches is kept once with
\* missing right cells when how is "left", and dropped when it is "inner".
\* Columns the two sides share besides the key get the suffixes _x and _y.
Merge(left, right, key, how) ==
    LET lcols == Range(left.columns)
        rcols == Range(right.columns) \ {key}
        both == lcols \cap rcols
        lname(c) == IF c \in both THEN c \o "_x" ELSE c
        rname(c) == IF c \in both THEN c \o "_y" ELSE c
        rseq == SelectSeq(right.columns, LAMBDA c : c # key)
        cols == [i \in DOMAIN left.columns |-> lname(left.columns[i])]
                    \o [i \in DOMAIN rseq |-> rname(rseq[i])]
        names == Range(cols)
        lsrc(c2) == {c \in lcols : lname(c) = c2}
        rsrc(c2) == CHOOSE c \in rcols : rname(c) = c2
        joined(l, r) == [c2 \in names |->
                            IF lsrc(c2) # {}
                            THEN l[CHOOSE c \in lcols : lname(c) = c2]
                            ELSE r[rsrc(c2)]]
        alone(l) == [c2 \in names |->
                        IF lsrc(c2) # {}
                        THEN l[CHOOSE c \in lcols : lname(c) = c2]
                        ELSE Null]
        out(l) == LET ms == Matches(l, right, key)
                  IN  IF ms = <<>>
                      THEN IF how = "left" THEN <<alone(l)>> ELSE <<>>
                      ELSE [j \in DOMAIN ms |-> joined(l, ms[j])]
    IN  [index |-> "",
         columns |-> cols,
         rows |-> Flatten([i \in DOMAIN left.rows |-> out(left.rows[i])])]

\* frame[[c1, ..., ck]]: the named columns, in the order named.
Project(t, cols) ==
    [index |-> t.index,
     columns |-> cols,
     rows |-> [i \in DOMAIN t.rows |-> [c \in Range(cols) |-> t.rows[i][c]]]]

\* frame[mask]: the rows whose entry of the Boolean series mask is true, in
\* order.
FilterRows(t, mask) ==
    LET kept == SelectSeq([i \in DOMAIN t.rows |-> i], LAMBDA i : mask[i])
    IN  [index |-> t.index,
         columns |-> t.columns,
         rows |-> [j \in DOMAIN kept |-> t.rows[kept[j]]]]

\* frame[col] = values: the column is overwritten with the series values,
\* or appended when new.
AssignColumn(t, col, values) ==
    LET names == Range(t.columns) \cup {col}
    IN  [index |-> t.index,
         columns |-> IF col \in Range(t.columns) THEN t.columns
                     ELSE Append(t.columns, col),
         rows |-> [i \in DOMAIN t.rows |->
                      [c \in names |-> IF c = col THEN values[i]
                                       ELSE t.rows[i][c]]]]

HasNA(r) == \E c \in DOMAIN r : IsNA(r[c])

DropNaAll(t) ==
    FilterRows(t, [i \in DOMAIN t.rows |->
                      \E c \in DOMAIN t.rows[i] : ~IsNA(t.rows[i][c])])

\* DataFrame.dropna(): the rows without any missing cell.
DropNa(t) == FilterRows(t, [i \in DOMAIN t.rows |-> ~HasNA(t.rows[i])])

(***************************************************************************)
(* groupby(key).agg({...}) as lines 90-105 use it.                         *)
(***************************************************************************)
AsciiOrder ==
    <<"+", "-", "0", "1", "2", "3", "4", "5", "6", "7", "8", "9",
      "A", "B", "N", "Z", "a", "n", "z">>

CharCode(ch) == CHOOSE i \in DOMAIN AsciiOrder : AsciiOrder[i] = ch

RECURSIVE LessText(_, _)
LessText(a, b) ==
    IF b = <<>> THEN FALSE
    ELSE IF a = <<>> THEN TRUE
    ELSE IF a[1] # b[1] THEN CharCode(a[1]) < CharCode(b[1])
    ELSE LessText(Tail(a), Tail(b))

\* The order of group keys; the keys of one column are all texts or all
\* integers.
LessCell(a, b) == IF a.t = "int" THEN a.n < b.n ELSE LessText(a.s, b.s)

RECURSIVE SortCells(_)
SortCells(S) ==
    IF S = {} THEN <<>>
    ELSE LET m == CHOOSE x \in S : \A y \in S \ {x} : LessCell(x, y)
         IN  <<m>> \o SortCells(S \ {m})

\* The groups of groupby(key): the distinct keys that are not missing
\* (dropna=True), in sorted order (sort=True).
GroupKeys(t, key) == SortCells({r[key] : r \in Range(t.rows)} \ {Null})

Group(t, key, k) == SelectSeq(t.rows, LAMBDA r : r[key] = k)

AggLast(rows, col) ==
    LET present == SelectSeq(rows, LAMBDA r : ~IsNA(r[col]))
    IN  IF present = <<>> THEN Null ELSE present[Len(present)][col]

\* agg "first": the first value of the group that is not missing, or missing.
AggFirst(rows, col) ==
    LET present == SelectSeq(rows, LAMBDA r : ~IsNA(r[col]))
    IN  IF present = <<>> THEN Null ELSE present[1][col]

RECURSIVE SumPresent(_, _)
SumPresent(rows, col) ==
    IF rows = <<>> THEN 0
    ELSE (IF IsNA(Head(rows)[col]) THEN 0 ELSE Head(rows)[col].n)
             + SumPresent(Tail(rows), col)

AggCount(rows, col) == Num(Len(SelectSeq(rows, LAMBDA r : ~IsNA(r[col]))))

\* agg "sum": the sum of the values that are not missing (0 when none is).
AggSum(rows, col) == Num(SumPresent(rows, col))

AggColumns ==
    <<"name_reg", "Registered", "Abstentions", "Null", "Choice A", "Choice B">>

AggOf(rows, col) ==
    IF col = "name_reg" THEN AggFirst(rows, col) ELSE AggSum(rows, col)

\* groupby("code_reg").agg({...}): one row per group, indexed by the key.
GroupByAgg(t, key) ==
    LET ks == GroupKeys(t, key)
    IN  [index |-> key,
         columns |-> AggColumns,
         rows |-> [i \in DOMAIN ks |->
                      [c \in Range(AggColumns) \cup {key} |->
                          IF c = key THEN ks[i]
                          ELSE AggOf(Group(t, key, ks[i]), c)]]]

\* reset_index(): the index becomes the first column.
ResetIndex(t) ==
    [index |-> "", columns |-> <<t.index>> \o t.columns, rows |-> t.rows]

\* set_index(col): the column becomes the index.
SetIndex(t, col) ==
    [index |-> col,
     columns |-> SelectSeq(t.columns, LAMBDA c : c # col),
     rows |-> t.rows]

(***************************************************************************)
(* The objects a call works on.  A Python name refers to an object; a      *)
(* statement writes the object it names.  store maps every object, the     *)
(* caller's arguments and the callee's locals, to its table.               *)
(***************************************************************************)
Objects ==
    {"regions", "departments", "regions_renamed", "departments_renamed",
     "referendum", "regions_and_departments", "referendum_filtered",
     "referendum_and_areas", "result"}

Functions ==
    {"merge_regions_and_departments", "merge_referendum_and_areas",
     "compute_referendum_result_by_regions"}

Params(f) ==
    CASE f = "merge_regions_and_departments" -> {"regions", "departments"}
      [] f = "merge_referendum_and_areas" ->
             {"referendum", "regions_and_departments"}
      [] OTHER -> {"referendum_and_areas"}

\* The store a call starts from: the arguments, and nothing else yet.
Load(args) == [o \in Objects |-> IF o \in DOMAIN args THEN args[o] ELSE None]

Args(f, s) == [o \in Params(f) |-> s[o]]

(***************************************************************************)
(* merge_regions_and_departments, lines 26-51.                             *)
(***************************************************************************)
RegionsRenaming == ("code" :> "code_reg") @@ ("name" :> "name_reg")

DepartmentsRenamingSwapped ==
    ("region_code" :> "code_reg") @@ ("code" :> "name_dep")
        @@ ("name" :> "code_dep")

DepartmentsRenaming ==
    ("region_code" :> "code_reg") @@ ("code" :> "code_dep")
        @@ ("name" :> "name_dep")

AreaColumns == <<"code_reg", "name_reg", "code_dep", "name_dep">>

AreasHowInner == "inner"

\* Line 46.
AreasHow == "left"

\* rename() returns a new table: the objects lines 32 and 35 bind.
RegionsRenamedObj == "regions_renamed"

DepartmentsRenamedObj == "departments_renamed"

ExecMergeRegionsAndDepartments(s) ==
    LET s1 == [s EXCEPT ![RegionsRenamedObj] =
                   Rename(s["regions"], RegionsRenaming)]
        s2 == [s1 EXCEPT ![DepartmentsRenamedObj] =
                   Rename(s1["departments"], DepartmentsRenaming)]
        merged == Merge(s2[DepartmentsRenamedObj], s2[RegionsRenamedObj],
                        "code_reg", AreasHow)
    IN  [s2 EXCEPT !["result"] = Project(merged, AreaColumns)]

(***************************************************************************)
(* merge_referendum_and_areas, lines 54-80.                                *)
(***************************************************************************)
ZFillWidth == 2

\* Line 75.
JoinHow == "left"

InPlaceObj == "referendum"

\* Boolean indexing followed by .copy() makes a new table: the object line
\* 60 binds and line 66 writes.
FilteredObj == "referendum_filtered"

\* Lines 61-63: the mask before negation.
HasZ(r, keepNA) ==
    StrContains(AsTypeStr(r["Department code"], keepNA), <<"Z">>, FALSE)

\* Lines 67-69: the derived code_dep of a row.
CodeDep(r, keepNA) ==
    StrZFill(AsTypeStr(r["Department code"], keepNA), ZFillWidth)

ExecMergeReferendumAndAreas(s, keepNA) ==
    LET before == s["referendum"].rows
        mask == [i \in DOMAIN before |-> ~HasZ(before[i], keepNA)]
        s1 == [s EXCEPT ![FilteredObj] = FilterRows(s["referendum"], mask)]
        kept == s1[FilteredObj].rows
        codes == [i \in DOMAIN kept |-> CodeDep(kept[i], keepNA)]
        s2 == [s1 EXCEPT ![FilteredObj] =
                   AssignColumn(s1[FilteredObj], "code_dep", codes)]
        merged == Merge(s2[FilteredObj], s2["regions_and_departments"],
                        "code_dep", JoinHow)
    IN  [s2 EXCEPT !["result"] = DropNa(merged)]

(***************************************************************************)
(* compute_referendum_result_by_regions, lines 83-107.                     *)
(***************************************************************************)
ExecComputeReferendumResultByRegions(s) ==
    [s EXCEPT !["result"] =
        SetIndex(ResetIndex(GroupByAgg(s["referendum_and_areas"], "code_reg")),
                 "code_reg")]

(***************************************************************************)
(* Input tables.                                                           *)
(***************************************************************************)
SeqsUpTo(S, n) == UNION {[1..k -> S] : k \in 0..n}

RegionCodes == {Null, Str(<<"1", "1">>), Str(<<"8", "4">>)}

RegionNames == {Str(<<"A">>), Str(<<"B">>)}

RegionRows == {("code" :> c) @@ ("name" :> n) : c \in RegionCodes, n \in RegionNames}

RegionTables ==
    {Table(<<"code", "name">>, rows) : rows \in SeqsUpTo(RegionRows, MaxRegions)}

DepartmentRows ==
    {("region_code" :> rc) @@ ("code" :> c) @@ ("name" :> Str(<<"N">>)) :
        rc \in RegionCodes, c \in {Str(<<"0", "1">>), Str(<<"2", "A">>)}}

DepartmentTables ==
    {Table(<<"code", "name", "region_code">>, rows) :
        rows \in SeqsUpTo(DepartmentRows, MaxDepartments)}

\* Department codes of the referendum table: missing, an integer, and texts
\* of 0 to 3 characters with and without "Z", "z" and a sign.
DepartmentCodes ==
    {Null, Num(7), Str(<<>>), Str(<<"1">>), Str(<<"-">>), Str(<<"1", "z">>),
     Str(<<"Z", "A">>), Str(<<"1", "2", "3">>)}

CountColumns == <<"Registered", "Abstentions", "Null", "Choice A", "Choice B">>

Counts(reg, abst, nul, a, b) ==
    ("Registered" :> reg) @@ ("Abstentions" :> abst) @@ ("Null" :> nul)
        @@ ("Choice A" :> a) @@ ("Choice B" :> b)

CompleteCounts == Counts(Num(10), Num(3), Num(1), Num(4), Num(2))

\* Every department code with all its counts, and one row that lacks a
\* count.
ReferendumRows ==
    {("Department code" :> c) @@ CompleteCounts : c \in DepartmentCodes}
        \cup {("Department code" :> Str(<<"1">>))
                  @@ Counts(Num(20), Num(5), Num(0), Num(7), Null)}

ReferendumTables ==
    {Table(<<"Department code">> \o CountColumns, rows) :
        rows \in SeqsUpTo(ReferendumRows, MaxReferendum)}

AreaRegions == {<<Str(<<"8", "4">>), Str(<<"A">>)>>, <<Str(<<"1", "1">>), Null>>}

AreaRows ==
    {("code_reg" :> reg[1]) @@ ("name_reg" :> reg[2]) @@ ("code_dep" :> d)
        @@ ("name_dep" :> Str(<<"N">>)) :
        reg \in AreaRegions, d \in {Str(<<"0", "1">>), Str(<<"1", "z">>)}}

AreaTables == {Table(AreaColumns, rows) : rows \in SeqsUpTo(AreaRows, MaxAreas)}

\* Rows of a joined table: every region code, missing or not, with every
\* region name, missing or not; other counts; and a missing count.
JoinedRows ==
    {("code_reg" :> c) @@ ("name_reg" :> n) @@ CompleteCounts :
        c \in RegionCodes, n \in RegionNames \cup {Null}}
        \cup {("code_reg" :> c) @@ ("name_reg" :> Str(<<"A">>))
                  @@ Counts(Num(20), Num(5), Num(0), Num(7), Num(6)) :
                 c \in RegionCodes}
        \cup {("code_reg" :> Str(<<"8", "4">>)) @@ ("name_reg" :> Str(<<"A">>))
                  @@ Counts(Null, Num(5), Num(0), Num(7), Num(6))}

JoinedTables ==
    {Table(<<"code_reg", "name_reg">> \o CountColumns, rows) :
        rows \in SeqsUpTo(JoinedRows, MaxJoined)}

(***************************************************************************)
(* The state machine: a call is loaded with its arguments (Init), and runs *)
(* to its return in one step.  given keeps the arguments as passed.        *)
(***************************************************************************)
\* Only merge_referendum_and_areas calls astype(str): the other calls are
\* loaded with the flag cleared.
InitMergeRegionsAndDepartments ==
    /\ pc = "ready"
    /\ astypeKeepsNA = FALSE
    /\ fn = "merge_regions_and_departments"
    /\ \E r \in RegionTables, d \in DepartmentTables :
          store = Load(("regions" :> r) @@ ("departments" :> d))
    /\ given = Args(fn, store)

InitMergeReferendumAndAreas ==
    /\ pc = "ready"
    /\ astypeKeepsNA \in BOOLEAN
    /\ fn = "merge_referendum_and_areas"
    /\ \E r \in ReferendumTables, a \in AreaTables :
          store = Load(("referendum" :> r) @@ ("regions_and_departments" :> a))
    /\ given = Args(fn, store)

InitComputeReferendumResultByRegions ==
    /\ pc = "ready"
    /\ astypeKeepsNA = FALSE
    /\ fn = "compute_referendum_result_by_regions"
    /\ \E t \in JoinedTables : store = Load("referendum_and_areas" :> t)
    /\ given = Args(fn, store)

Init ==
    \/ InitMergeRegionsAndDepartments
    \/ InitMergeReferendumAndAreas
    \/ InitComputeReferendumResultByRegions

MergeRegionsAndDepartments ==
    /\ pc = "ready"
    /\ fn = "merge_regions_and_departments"
    /\ store' = ExecMergeRegionsAndDepartments(store)
    /\ pc' = "done"
    /\ UNCHANGED <<fn, given, astypeKeepsNA>>

MergeReferendumAndAreas ==
    /\ pc = "ready"
    /\ fn = "merge_referendum_and_areas"
    /\ store' = ExecMergeReferendumAndAreas(store, astypeKeepsNA)
    /\ pc' = "done"
    /\ UNCHANGED <<fn, given, astypeKeepsNA>>

ComputeReferendumResultByRegions ==
    /\ pc = "ready"
    /\ fn = "compute_referendum_result_by_regions"
    /\ store' = ExecComputeReferendumResultByRegions(store)
    /\ pc' = "done"
    /\ UNCHANGED <<fn, given, astypeKeepsNA>>

RECURSIVE Distinct(_)
Distinct(q) ==
    IF q = <<>> THEN <<>>
    ELSE <<Head(q)>> \o Distinct(SelectSeq(Tail(q), LAMBDA x : x # Head(q)))

\* The area table that maps each code_dep of t to itself.
IdentityAreas(t) ==
    Table(<<"code_dep">>,
          Distinct([i \in DOMAIN t.rows |-> ("code_dep" :> t.rows[i]["code_dep"])]))

\* merge_referendum_and_areas called again, on its own result as the
\* referendum table and the identity area table of that result.
ReapplyMergeReferendumAndAreas ==
    /\ pc = "done"
    /\ fn = "merge_referendum_and_areas"
    /\ LET again == Load(("referendum" :> store["result"])
                            @@ ("regions_and_departments" :>
                                    IdentityAreas(store["result"])))
       IN  /\ given' = Args(fn, again)
           /\ store' = ExecMergeReferendumAndAreas(again, astypeKeepsNA)
    /\ pc' = "reapplied"
    /\ UNCHANGED <<fn, astypeKeepsNA>>

Next ==
    \/ MergeRegionsAndDepartments
    \/ MergeReferendumAndAreas
    \/ ComputeReferendumResultByRegions
    \/ ReapplyMergeReferendumAndAreas

\* Every function, each on its own inputs.
Spec == Init /\ [][Next]_vars

\* merge_regions_and_departments alone.
SpecAreas == InitMergeRegionsAndDepartments /\ [][MergeRegionsAndDepartments]_vars

NextJoin == MergeReferendumAndAreas \/ ReapplyMergeReferendumAndAreas

\* merge_referendum_and_areas alone, called once and then on its own result.
SpecJoin == InitMergeReferendumAndAreas /\ [][NextJoin]_vars

\* compute_referendum_result_by_regions alone.
SpecRegions ==
    InitComputeReferendumResultByRegions
        /\ [][ComputeReferendumResultByRegions]_vars

(***************************************************************************)
(* Vocabulary of the properties, stated without the operators above.       *)
(***************************************************************************)
Returned(f) == fn = f /\ pc = "done"

Result == store["result"].rows

Restrict(r, cols) == [c \in cols |-> r[c]]

\* The text form of a cell that is not missing.
TextOf(c) == IF c.t = "int" THEN IntText(c.n) ELSE c.s

HasChar(c, ch) == ~IsNA(c) /\ \E i \in DOMAIN TextOf(c) : TextOf(c)[i] = ch

Indices(q, P(_)) == {i \in DOMAIN q : P(q[i])}

RECURSIVE SumOver(_, _, _)
\* The sum of column col over the rows of q at the indices I, a missing
\* value adding nothing.
SumOver(q, col, I) ==
    IF I = {} THEN 0
    ELSE LET i == CHOOSE j \in I : TRUE
         IN  (IF IsNA(q[i][col]) THEN 0 ELSE q[i][col].n)
                 + SumOver(q, col, I \ {i})

(***************************************************************************)
(* merge_regions_and_departments.                                          *)
(***************************************************************************)
GivenRegions == given["regions"].rows

GivenDepartments == given["departments"].rows

RegionsOf(d) == Indices(GivenRegions, LAMBDA r : r["code"] = d["region_code"])

DistinctRegionCodes ==
    \A i, j \in DOMAIN GivenRegions :
        GivenRegions[i]["code"] = GivenRegions[j]["code"] => i = j

NoMissingRegionCode ==
    /\ \A r \in Range(GivenRegions) : ~IsNA(r["code"])
    /\ \A d \in Range(GivenDepartments) : ~IsNA(d["region_code"])

\* C1 as stated: whatever the Region and Department tables, a region code
\* repeated or not, the output has as many rows as the Department table
\* (stated here for the tables without a missing region code, the case
\* least open to question).
C1_RowCountEqualsDepartments ==
    Returned("merge_regions_and_departments") /\ NoMissingRegionCode
        => Len(Result) = Len(GivenDepartments)

\* C1 amended: the output has as many rows as the Department table whenever
\* no region code (a missing code included) is on two Region rows, and in
\* general one row per department and Region row of its code, one row for a
\* department without any.
C1_RowCountWhenRegionCodesDistinct ==
    Returned("merge_regions_and_departments")
        => /\ DistinctRegionCodes => Len(Result) = Len(GivenDepartments)
           /\ Len(Result) >= Len(GivenDepartments)
           /\ \A d \in Range(GivenDepartments) :
                 Cardinality(Indices(Result, LAMBDA x :
                        /\ x["code_dep"] = d["code"]
                        /\ x["code_reg"] = d["region_code"]))
                    >= Cardinality(RegionsOf(d))

C1_Witness ==
    /\ Returned("merge_regions_and_departments")
    /\ DistinctRegionCodes
    /\ Len(GivenRegions) = 2
    /\ Len(GivenDepartments) = 2
    /\ \E d \in Range(GivenDepartments) : RegionsOf(d) # {}
    /\ \E d \in Range(GivenDepartments) : RegionsOf(d) = {}

DepartmentPart(x) ==
    ("region_code" :> x["code_reg"]) @@ ("code" :> x["code_dep"])
        @@ ("name" :> x["name_dep"])

RECURSIVE Follows(_, _)
\* out lists the rows of deps in their order, each one or more times.
Follows(out, deps) ==
    IF deps = <<>> THEN out = <<>>
    ELSE /\ out # <<>>
         /\ DepartmentPart(Head(out)) = Head(deps)
         /\ \/ Follows(Tail(out), Tail(deps))
            \/ Follows(Tail(out), deps)

\* C9: a department whose region code is the code of no Region row (a
\* missing code equals a missing code, as the join has it) is in the output
\* with a missing name_reg, and the output rows follow the order of the
\* Department rows.
C9_UnmatchedKeptInOrder ==
    Returned("merge_regions_and_departments")
        => /\ \A d \in Range(GivenDepartments) :
                 RegionsOf(d) = {} =>
                     \E x \in Range(Result) :
                         /\ DepartmentPart(x) = d
                         /\ IsNA(x["name_reg"])
           /\ Follows(Result, GivenDepartments)

C9_Witness ==
    /\ Returned("merge_regions_and_departments")
    /\ Len(GivenDepartments) = 2
    /\ GivenDepartments[1] # GivenDepartments[2]
    /\ RegionsOf(GivenDepartments[1]) = {}
    /\ RegionsOf(GivenDepartments[2]) # {}
    /\ IsNA(Result[1]["name_reg"])
    /\ ~IsNA(Result[2]["name_reg"])

(***************************************************************************)
(* merge_referendum_and_areas.                                             *)
(***************************************************************************)
GivenReferendum == given["referendum"].rows

GivenAreas == given["regions_and_departments"].rows

Filtered == store["referendum_filtered"].rows

ReferendumColumns == Range(<<"Department code">> \o CountColumns)

Survives(r) == \E x \in Range(Filtered) : Restrict(x, ReferendumColumns) = r

\* C2: no output row has a Department code whose text contains "Z", and a
\* row whose code contains "z" but no "Z" passes the filter.
C2_NoUpperCaseZ ==
    fn = "merge_referendum_and_areas" /\ pc # "ready"
        => /\ \A x \in Range(Result) : ~HasChar(x["Department code"], "Z")
           /\ \A x \in Range(Filtered) : ~HasChar(x["Department code"], "Z")
           /\ pc = "done" =>
                 \A r \in Range(GivenReferendum) :
                     /\ HasChar(r["Department code"], "z")
                     /\ ~HasChar(r["Department code"], "Z")
                     => Survives(r)

C2_Witness ==
    /\ Returned("merge_referendum_and_areas")
    /\ \E r \in Range(GivenReferendum) : HasChar(r["Department code"], "Z")
    /\ \E x \in Range(Result) : HasChar(x["Department code"], "z")

\* C5 as stated: a row whose Department code is missing does not pass the
\* filter of step 1.
C5_MissingCodeFilteredOut ==
    Returned("merge_referendum_and_areas")
        => \A x \in Range(Filtered) : ~IsNA(x["Department code"])

\* C5 amended: a row whose Department code is missing passes the filter of
\* step 1 and gets a code_dep (the text "nan", or a missing value); it is
\* the dropping of rows with a missing value, step 4, that keeps it out of
\* the output.
C5_MissingCodeDroppedByDropNa ==
    Returned("merge_referendum_and_areas")
        => /\ \A r \in Range(GivenReferendum) :
                 IsNA(r["Department code"]) =>
                     \E x \in Range(Filtered) :
                         /\ Restrict(x, ReferendumColumns) = r
                         /\ x["code_dep"] \in {Null, Str(<<"n", "a", "n">>)}
           /\ \A x \in Range(Result) : ~IsNA(x["Department code"])

C5_Witness ==
    /\ Returned("merge_referendum_and_areas")
    /\ \E x \in Range(Filtered) : IsNA(x["Department code"])
    /\ Result # <<>>

AreaPart(x) == Restrict(x, Range(AreaColumns))

\* C6: an output row has no missing value: it is a referendum row without
\* a missing value joined to an area row of its code_dep without one.
C6_NoMissingValueInOutput ==
    fn = "merge_referendum_and_areas" /\ pc # "ready"
        => \A x \in Range(Result) :
              /\ \A c \in DOMAIN x : ~IsNA(x[c])
              /\ pc = "done" =>
                    /\ \E r \in Range(GivenReferendum) :
                          /\ r = Restrict(x, ReferendumColumns)
                          /\ \A c \in DOMAIN r : ~IsNA(r[c])
                    /\ \E a \in Range(GivenAreas) :
                          /\ a = AreaPart(x)
                          /\ \A c \in DOMAIN a : ~IsNA(a[c])

C6_Witness ==
    /\ Returned("merge_referendum_and_areas")
    /\ Result # <<>>
    /\ \E a \in Range(GivenAreas) : IsNA(a["name_reg"])
    /\ \E x \in Range(Filtered) : IsNA(x["Choice B"])
    /\ Len(Result) < Len(Filtered)

PadLeft(s, width) == IF Len(s) >= width THEN s ELSE Zeros(width - Len(s)) \o s

\* C7 as stated: the code_dep of a row that passed the filter is the text
\* of its Department code with "0" put in front up to 2 characters.
C7_CodeDepLeftPadded ==
    Returned("merge_referendum_and_areas")
        => \A x \in Range(Filtered) :
              ~IsNA(x["Department code"])
                  => x["code_dep"] = Str(PadLeft(TextOf(x["Department code"]), 2))

\* C7 amended: the code_dep of a row that passed the filter with a
\* Department code that is not missing is the text of the code when it has
\* 2 characters or more, "00" when it is empty, and for a single character
\* c it is "0" followed by c, except that a sign ("+" or "-") comes first
\* and the "0" after it.
C7_CodeDepZeroFilled ==
    Returned("merge_referendum_and_areas")
        => \A x \in Range(Filtered) :
              ~IsNA(x["Department code"]) =>
                  LET s == TextOf(x["Department code"])
                  IN  x["code_dep"] =
                          Str(CASE Len(s) >= 2 -> s
                                [] Len(s) = 0 -> <<"0", "0">>
                                [] OTHER -> IF s[1] \in {"+", "-"}
                                            THEN <<s[1], "0">>
                                            ELSE <<"0", s[1]>>)

C7_Witness ==
    /\ Returned("merge_referendum_and_areas")
    /\ \E x \in Range(Filtered) : x["Department code"] = Str(<<"-">>)
    /\ \E x \in Range(Filtered) : x["Department code"] = Num(7)

\* C8: called on its own output and the identity area table of that
\* output, merge_referendum_and_areas returns the rows it was given, in the
\* same order and with the same columns.
C8_Idempotent ==
    fn = "merge_referendum_and_areas" /\ pc = "reapplied"
        => /\ Result = GivenReferendum
           /\ store["result"].columns = given["referendum"].columns

C8_Witness ==
    /\ fn = "merge_referendum_and_areas"
    /\ pc = "reapplied"
    /\ Len(Result) = 2
    /\ Result[1]["code_dep"] # Result[2]["code_dep"]

(***************************************************************************)
(* compute_referendum_result_by_regions.                                   *)
(***************************************************************************)
GivenJoined == given["referendum_and_areas"].rows

GroupOf(k) == Indices(GivenJoined, LAMBDA r : r["code_reg"] = k)

Min(I) == CHOOSE i \in I : \A j \in I : i <= j

OneRowPerRegion ==
    /\ {x["code_reg"] : x \in Range(Result)}
           = {r["code_reg"] : r \in Range(GivenJoined)} \ {Null}
    /\ \A i, j \in DOMAIN Result :
           Result[i]["code_reg"] = Result[j]["code_reg"] => i = j

SumsPerRegion ==
    \A x \in Range(Result) :
        \A c \in Range(CountColumns) :
            x[c] = Num(SumOver(GivenJoined, c, GroupOf(x["code_reg"])))

\* C3 as stated: one row per code_reg of the input, the five counts summed
\* over the rows of that code_reg, and the name_reg of the first of them.
C3_SumsAndFirstRowName ==
    Returned("compute_referendum_result_by_regions")
        => /\ OneRowPerRegion
           /\ SumsPerRegion
           /\ \A x \in Range(Result) :
                 x["name_reg"]
                     = GivenJoined[Min(GroupOf(x["code_reg"]))]["name_reg"]

\* C3 amended: one row per code_reg of the input that is not missing, the
\* five counts summed over the rows of that code_reg, and as name_reg the
\* first name_reg of those rows that is not missing (missing when all
\* are).
C3_SumsAndFirstPresentName ==
    Returned("compute_referendum_result_by_regions")
        => /\ OneRowPerRegion
           /\ SumsPerRegion
           /\ \A x \in Range(Result) :
                 LET named == {i \in GroupOf(x["code_reg"]) :
                                  ~IsNA(GivenJoined[i]["name_reg"])}
                 IN  x["name_reg"] = IF named = {} THEN Null
                                     ELSE GivenJoined[Min(named)]["name_reg"]

C3_Witness ==
    /\ Returned("compute_referendum_result_by_regions")
    /\ Len(Result) = 1
    /\ Len(GivenJoined) = 3
    /\ IsNA(GivenJoined[1]["name_reg"])
    /\ GivenJoined[2]["name_reg"] = Str(<<"B">>)
    /\ GivenJoined[3]["name_reg"] = Str(<<"A">>)
    /\ Result[1]["name_reg"] = Str(<<"B">>)
    /\ Result[1]["Registered"] = Num(30)

\* C4 as stated: Registered summed over the output rows is Registered
\* summed over all input rows, those with a missing code_reg included.
C4_RegisteredTotalKept ==
    Returned("compute_referendum_result_by_regions")
        => SumOver(Result, "Registered", DOMAIN Result)
               = SumOver(GivenJoined, "Registered", DOMAIN GivenJoined)

\* C4 amended: Registered summed over the output rows is Registered summed
\* over the input rows whose code_reg is not missing; the rows with a
\* missing code_reg are in no group and count for nothing.
C4_RegisteredTotalOfGroupedRows ==
    Returned("compute_referendum_result_by_regions")
        => SumOver(Result, "Registered", DOMAIN Result)
               = SumOver(GivenJoined, "Registered",
                         Indices(GivenJoined, LAMBDA r : ~IsNA(r["code_reg"])))

C4_Witness ==
    /\ Returned("compute_referendum_result_by_regions")
    /\ Len(Result) = 2
    /\ \E r \in Range(GivenJoined) :
          IsNA(r["code_reg"]) /\ r["Registered"] = Num(10)
    /\ SumOver(Result, "Registered", DOMAIN Result) = 20

(***************************************************************************)
(* All three functions.                                                    *)
(***************************************************************************)
\* C10: when a call has returned, each table passed to it has the rows and
\* the columns it had when passed.
C10_ArgumentsUnchanged ==
    pc # "ready" => \A o \in Params(fn) : store[o] = given[o]

C10_Witness ==
    /\ Returned("merge_referendum_and_areas")
    /\ Len(Filtered) < Len(GivenReferendum)
    /\ Filtered # <<>>
    /\ "code_dep" \in Range(store["referendum_filtered"].columns)
    /\ "code_dep" \notin Range(store["referendum"].columns)

====
